---- MODULE Spec2Model ----
\* Frame/type codec of cassandra-rs (src/src/protocol.rs, src/src/types.rs,
\* src/src/errors.rs), modelled at the byte level.  A byte is a number in
\* 0..255, a buffer or a String is a sequence of bytes, the transport is a
\* byte sequence with a read cursor.
EXTENDS Integers, Sequences, FiniteSets, TLC

VARIABLES
    op,        \* the operation that ran last
    sent,      \* what the bytes in flight were made from: the Header or request
               \* handed to encode, or the frame the server wrote
    written,   \* the bytes the last encode wrote to its transport
    wire,      \* the bytes the decodes read from
    pos,       \* the read cursor in wire
    call,      \* the arguments of the last operation
    ret,       \* what the last operation returned
    held       \* the QueryResult the caller holds

vars == <<op, sent, written, wire, pos, call, ret, held>>

\* ---------------------------------------------------------------- bounds
\* longest query text enumerated (besides the fixed sample queries)
MaxQueryLen == 2
\* most bound values of a query
MaxParams == 2
\* most columns of an enumerated Rows body
MaxCols == 2
\* most rows of an enumerated Rows body
MaxRows == 2

\* ------------------------------------------------------- integers, bytes
\* u8, u16 and i32 values are integers.  A u32 is the pair of its 16-bit
\* halves, [hi, lo], so that all 2^32 values exist in the model.
Pow256(k) == IF k = 0 THEN 1 ELSE IF k = 1 THEN 256 ELSE IF k = 2 THEN 65536 ELSE 16777216

U32(hi, lo) == [hi |-> hi, lo |-> lo]

\* the i32 with the given halves (two's complement)
I32Of(hi, lo) == (IF hi >= 32768 THEN hi - 65536 ELSE hi) * 65536 + lo

\* `as u16`, `as u32`, `as i32` casts of a length or of an i32
AsU16(n) == n % 65536
AsU32(n) == U32((n \div 65536) % 65536, n % 65536)
AsI32(n) == I32Of((n \div 65536) % 65536, n % 65536)

\* podio write_u8/u16/i32::<BigEndian>: the k low bytes of n, most significant
\* first (\div rounds down, so a negative n gives its two's complement)
BE(n, k) == [i \in 1..k |-> (n \div Pow256(k - i)) % 256]

\* podio write_u32::<BigEndian>
U32Bytes(u) == BE(u.hi, 2) \o BE(u.lo, 2)

\* podio read_u8/u16::<BigEndian> of one or two bytes
FromBE(bytes) ==
    LET k == Len(bytes)
        RECURSIVE Go(_, _)
        Go(i, acc) == IF i > k THEN acc ELSE Go(i + 1, acc * 256 + bytes[i])
    IN Go(1, 0)

\* ------------------------------------------------------------ errors.rs
\* MyError: the two variants, IO(io::Error) and Protocol(String).  The text of
\* a Protocol error is kept as the format string (what) and its arguments.
\* code is the number the text is formatted from, as a u32.
NoErr == [kind |-> "none", what |-> "", code |-> U32(0, 0), text |-> <<>>]
IOError(w) == [kind |-> "IO", what |-> w, code |-> U32(0, 0), text |-> <<>>]
Protocol(w, c, t) == [kind |-> "Protocol", what |-> w, code |-> c, text |-> t]

\* Result<T> of a decode step on a buffer: st is "Ok", "Err" or "Panic" (the
\* thread unwinds, nothing is returned); pos is the cursor afterwards.
NoVal == [none |-> TRUE]
Ok(v, p) == [st |-> "Ok", val |-> v, pos |-> p, err |-> NoErr]
Fail(e, p) == [st |-> "Err", val |-> NoVal, pos |-> p, err |-> e]
Panicked(w, p) == [st |-> "Panic", val |-> NoVal, pos |-> p, err |-> [NoErr EXCEPT !.what = w]]

\* try!(r): the error returns at once, the value goes on to K
Try(r, K(_)) == IF r.st # "Ok" THEN r ELSE K(r)

\* podio ReadPodExt::read_exact(len): len bytes, or UnexpectedEof after
\* draining what the reader still had
ReadExact(buf, p, n) ==
    IF p + n <= Len(buf)
    THEN Ok(SubSeq(buf, p + 1, p + n), p + n)
    ELSE Fail(IOError("UnexpectedEof"), Len(buf))

\* read_u8, read_u16::<BigEndian>
ReadUInt(buf, p, k) ==
    Try(ReadExact(buf, p, k), LAMBDA r : Ok(FromBE(r.val), r.pos))

\* read_u32::<BigEndian>
ReadU32(buf, p) ==
    Try(ReadExact(buf, p, 4),
        LAMBDA r : Ok(U32(FromBE(SubSeq(r.val, 1, 2)), FromBE(SubSeq(r.val, 3, 4))), r.pos))

\* read_i32::<BigEndian>
ReadI32(buf, p) ==
    Try(ReadU32(buf, p), LAMBDA r : Ok(I32Of(r.val.hi, r.val.lo), r.pos))

\* ReadExactU32 as a single read(): what the transport holds is returned when
\* it holds fewer than n bytes
ReadAvailableU32(buf, p, n) ==
    IF n.hi = 0 /\ p + n.lo <= Len(buf) THEN ReadExact(buf, p, n.lo)
    ELSE Ok(SubSeq(buf, p + 1, Len(buf)), Len(buf))

\* read_exact(n as usize) of a u32 n: no buffer of the model holds 65536 bytes
ReadExactU32(buf, p, n) ==
    IF n.hi = 0 THEN ReadExact(buf, p, n.lo) ELSE Fail(IOError("UnexpectedEof"), Len(buf))

\* ------------------------------------------------------------- UTF-8
IsCont(b) == b >= 128 /\ b <= 191

\* String::from_utf8: whether the bytes from index i on are well-formed UTF-8
RECURSIVE Utf8From(_, _)
Utf8From(s, i) ==
    IF i > Len(s) THEN TRUE
    ELSE LET b == s[i]
             has(n) == i + n <= Len(s)
         IN CASE b <= 127 -> Utf8From(s, i + 1)
              [] b >= 194 /\ b <= 223 ->
                    has(1) /\ IsCont(s[i + 1]) /\ Utf8From(s, i + 2)
              [] b >= 224 /\ b <= 239 ->
                    /\ has(2)
                    /\ IsCont(s[i + 1]) /\ IsCont(s[i + 2])
                    /\ (b = 224 => s[i + 1] >= 160)
                    /\ (b = 237 => s[i + 1] <= 159)
                    /\ Utf8From(s, i + 3)
              [] b >= 240 /\ b <= 244 ->
                    /\ has(3)
                    /\ IsCont(s[i + 1]) /\ IsCont(s[i + 2]) /\ IsCont(s[i + 3])
                    /\ (b = 240 => s[i + 1] >= 144)
                    /\ (b = 244 => s[i + 1] <= 143)
                    /\ Utf8From(s, i + 4)
              [] OTHER -> FALSE

IsUtf8(s) == Utf8From(s, 1)

\* ------------------------------------------------------ Version, Flags
VersionByte(v) == IF v = "Request" THEN 3 ELSE 131

VersionDecode(buf, p) ==
    Try(ReadUInt(buf, p, 1),
        LAMBDA r : IF r.val = 3 THEN Ok("Request", r.pos)
                   ELSE IF r.val = 131 THEN Ok("Response", r.pos)
                   ELSE Fail(Protocol("unknown version header", AsU32(r.val), <<>>), r.pos))

FlagsByte(f) == (IF f.compression THEN 1 ELSE 0) + (IF f.tracing THEN 2 ELSE 0)

\* FlagsDecode with the tracing flag taken from bit 2 instead of bit 1
FlagsDecodeBit2(buf, p) ==
    Try(ReadUInt(buf, p, 1),
        LAMBDA r : Ok([compression |-> r.val % 2 = 1, tracing |-> (r.val \div 4) % 2 = 1],
                      r.pos))

FlagsDecode(buf, p) ==
    Try(ReadUInt(buf, p, 1),
        LAMBDA r : Ok([compression |-> r.val % 2 = 1, tracing |-> (r.val \div 2) % 2 = 1],
                      r.pos))

FlagsNew == [compression |-> FALSE, tracing |-> FALSE]

\* ------------------------------------------------------------- Opcode
Opcodes ==
    << <<0, "Error">>, <<1, "Startup">>, <<2, "Ready">>, <<3, "Authenticate">>,
       <<5, "Options">>, <<6, "Supported">>, <<7, "Query">>, <<8, "Result">>,
       <<9, "Prepare">>, <<10, "Execute">>, <<11, "Register">>, <<12, "Event">>,
       <<13, "Batch">>, <<14, "AuthChallenge">>, <<15, "AuthResponse">>,
       <<16, "AuthSuccess">> >>

OpcodeNames == {Opcodes[i][2] : i \in DOMAIN Opcodes}

OpcodeByte(o) == LET i == CHOOSE j \in DOMAIN Opcodes : Opcodes[j][2] = o IN Opcodes[i][1]

OpcodeDecode(buf, p) ==
    Try(ReadUInt(buf, p, 1),
        LAMBDA r :
            IF \E j \in DOMAIN Opcodes : Opcodes[j][1] = r.val
            THEN Ok(Opcodes[CHOOSE j \in DOMAIN Opcodes : Opcodes[j][1] = r.val][2], r.pos)
            ELSE Fail(Protocol("Unknown opcode", AsU32(r.val), <<>>), r.pos))

\* ----------------------------------------------------- String (u16 prefix)
\* ToWire for &str
StrEncode(s) == BE(AsU16(Len(s)), 2) \o s

\* FromWire for String
StringDecode(buf, p) ==
    Try(ReadUInt(buf, p, 2), LAMBDA len :
    Try(ReadExact(buf, len.pos, len.val), LAMBDA byte_vec :
    IF IsUtf8(byte_vec.val) THEN Ok(byte_vec.val, byte_vec.pos)
    ELSE Fail(Protocol("from_utf8", U32(0, 0), <<>>), byte_vec.pos)))

\* ------------------------------------------------------------- Header
MkHeader(v, f, s, o, l) == [version |-> v, flags |-> f, stream |-> s, opcode |-> o, length |-> l]

\* ToWire for Header
HeaderBytes(h) ==
    <<VersionByte(h.version), FlagsByte(h.flags)>> \o BE(h.stream, 2)
        \o <<OpcodeByte(h.opcode)>> \o U32Bytes(h.length)

\* HeaderMatch without the arm for Opcode::Error: every header is returned
HeaderMatchNoErrorArm(buf, header, p) == Ok(header, p)

\* the match on header.opcode of Header::decode: an Error frame's code and
\* message are read and returned as a Protocol error
HeaderMatch(buf, header, p) ==
    IF header.opcode = "Error"
    THEN Try(ReadU32(buf, p), LAMBDA code :
         Try(StringDecode(buf, code.pos), LAMBDA message :
         Fail(Protocol("Error 0x{:04X}: {}", code.val, message.val), message.pos)))
    ELSE Ok(header, p)

\* FromWire for Header
HeaderDecode(buf, p) ==
    Try(VersionDecode(buf, p), LAMBDA version :
    Try(FlagsDecode(buf, version.pos), LAMBDA flags :
    Try(ReadUInt(buf, flags.pos, 2), LAMBDA stream :
    Try(OpcodeDecode(buf, stream.pos), LAMBDA opcode :
    Try(ReadU32(buf, opcode.pos), LAMBDA length :
    HeaderMatch(buf, MkHeader(version.val, flags.val, stream.val, opcode.val, length.val),
                length.pos))))))

\* ------------------------------------------------------ the transport
\* A std::io::Write the encoders write to, as a transport may behave: room is
\* the number of bytes it takes before writes fail (-1: no limit), accept is
\* the most bytes one call of write() takes (-1: all that is offered).
Min(a, b) == IF a < b THEN a ELSE b

RoomLeft(t, out) == IF t.room < 0 THEN -1 ELSE t.room - Len(out)

WOk(out) == [st |-> "Ok", out |-> out, err |-> NoErr]
WErr(out) == [st |-> "Err", out |-> out, err |-> IOError("write")]

\* Write::write(buf): one call, which may take fewer bytes than offered; the
\* count it returns is what the caller gets back
Write(t, out, bytes) ==
    LET left == RoomLeft(t, out)
        offered == IF t.accept < 0 THEN Len(bytes) ELSE Min(t.accept, Len(bytes))
        n == IF left < 0 THEN offered ELSE Min(offered, left)
    IN IF left = 0 /\ Len(bytes) > 0 THEN WErr(out)
       ELSE WOk(out \o SubSeq(bytes, 1, n))

\* Write::write_all(buf): write() until every byte is taken, or a call fails
\* or takes nothing (WriteZero)
WriteAll(t, out, bytes) ==
    LET left == RoomLeft(t, out)
    IN IF Len(bytes) = 0 THEN WOk(out)
       ELSE IF t.accept = 0 THEN WErr(out)
       ELSE IF left < 0 \/ Len(bytes) <= left THEN WOk(out \o bytes)
       ELSE WErr(out \o SubSeq(bytes, 1, left))

\* ToWire for Header, on a transport: five write_all calls, try! after each
HeaderEncode(h, t, out) ==
    Try(WriteAll(t, out, <<VersionByte(h.version)>>), LAMBDA a :
    Try(WriteAll(t, a.out, <<FlagsByte(h.flags)>>), LAMBDA b :
    Try(WriteAll(t, b.out, BE(h.stream, 2)), LAMBDA c :
    Try(WriteAll(t, c.out, <<OpcodeByte(h.opcode)>>), LAMBDA d :
    WriteAll(t, d.out, U32Bytes(h.length))))))

\* ToWire for &str, on a transport: write_u16 of self.len() as u16, then
\* write_all of the bytes
StrEncodeTo(str, t, out) ==
    Try(WriteAll(t, out, BE(AsU16(Len(str)), 2)), LAMBDA a : WriteAll(t, a.out, str))

\* ------------------------------------------------------------ requests
\* OptionsRequest::new
OptionsRequestNew ==
    [type |-> "Options", header |-> MkHeader("Request", FlagsNew, 0, "Options", U32(0, 0))]

\* ToWire for OptionsRequest
OptionsRequestEncode(r, t) == HeaderEncode(r.header, t, <<>>)

\* "CQL_VERSION"
CqlVersionKey == <<67, 81, 76, 95, 86, 69, 82, 83, 73, 79, 78>>

\* ToWire for StringMap, of the one-entry map StartupRequest::new builds
StringMapEncode(key, val) == BE(AsU16(1), 2) \o StrEncode(key) \o StrEncode(val)

\* StartupRequest::new
StartupRequestNew(cql_version) ==
    LET body == StringMapEncode(CqlVersionKey, cql_version)
    IN [type |-> "Startup",
        header |-> MkHeader("Request", FlagsNew, 0, "Startup", AsU32(Len(body))),
        body |-> body]

\* the write of the body in StartupRequest::encode: one call of write(), whose
\* returned count is dropped
StartupBodyWrite(t, out, body) == Write(t, out, body)

\* ToWire for StartupRequest
StartupRequestEncode(r, t) ==
    Try(HeaderEncode(r.header, t, <<>>), LAMBDA h : StartupBodyWrite(t, h.out, r.body))

\* ToCQL::serialize of a bound value: i32, String / &str, bool, Uuid
Serialize(v) ==
    CASE v.ty = "i32" -> BE(v.n, 4)
      [] v.ty = "String" -> v.s
      [] v.ty = "bool" -> IF v.n = 1 THEN <<1>> ELSE <<0>>
      [] v.ty = "Uuid" -> v.s

\* QueryFlags that never sets the values bit
QueryFlagsNoValues(params) == 0

\* the query flags byte QueryRequest::new computes
QueryFlags(params) == IF Len(params) = 0 THEN 0 ELSE 1

\* QueryRequest::new
QueryRequestNew(query, params) ==
    [type |-> "Query",
     header |-> MkHeader("Request", FlagsNew, 0, "Query", U32(0, 0)),
     query |-> query,
     consistency |-> 1,
     flags |-> QueryFlags(params),
     params |-> params]

\* the loop over params of QueryRequest::encode
RECURSIVE ParamBytes(_, _)
ParamBytes(params, i) ==
    IF i > Len(params) THEN <<>>
    ELSE LET bytes == Serialize(params[i])
         IN BE(AsI32(Len(bytes)), 4) \o bytes \o ParamBytes(params, i + 1)

\* the body QueryRequest::encode assembles in a Vec before it writes anything
QueryBody(r) ==
    U32Bytes(AsU32(Len(r.query))) \o r.query \o BE(r.consistency, 2) \o <<r.flags>>
      \o (IF Len(r.params) > 0
          THEN BE(AsU16(Len(r.params)), 2) \o ParamBytes(r.params, 1)
          ELSE <<>>)

\* header.length = body.len() as u32
QueryHeader(r, body) == [r.header EXCEPT !.length = AsU32(Len(body))]

\* ToWire for QueryRequest
QueryRequestEncode(r, t) ==
    Try(HeaderEncode(QueryHeader(r, QueryBody(r)), t, <<>>),
        LAMBDA h : WriteAll(t, h.out, QueryBody(r)))

\* ------------------------------------------------- ResultKind, ResultFlags
\* FromWire for ResultKind
ResultKindDecode(buf, p) ==
    Try(ReadI32(buf, p), LAMBDA r :
        CASE r.val = 1 -> Ok("Void", r.pos)
          [] r.val = 2 -> Ok("Rows", r.pos)
          [] r.val = 3 -> Ok("SetKeyspace", r.pos)
          [] r.val = 4 -> Ok("Prepared", r.pos)
          [] r.val = 5 -> Ok("SchemaChange", r.pos)
          [] OTHER -> Fail(Protocol("Unknown result kind", AsU32(r.val), <<>>), r.pos))

\* FromWire for ResultFlags: bits 0, 1, 2 of the i32
ResultFlagsDecode(buf, p) ==
    Try(ReadI32(buf, p), LAMBDA r :
        Ok([global_table_spec |-> r.val % 2 = 1,
            has_more_pages |-> (r.val \div 2) % 2 = 1,
            no_metadata |-> (r.val \div 4) % 2 = 1], r.pos))

\* FromWire for TableSpec
TableSpecDecode(buf, p) ==
    Try(StringDecode(buf, p), LAMBDA keyspace :
    Try(StringDecode(buf, keyspace.pos), LAMBDA table :
    Ok([keyspace |-> keyspace.val, table |-> table.val], table.pos)))

\* ------------------------------------------------------------- CQLType
\* A value of the enum CQLType (types.rs): the variant alone.  args and name
\* are what a variant would carry, and no variant of the enum carries anything.
Variant(tag) == [tag |-> tag, args |-> <<>>, name |-> <<>>]

ScalarTags ==
    << <<1, "Ascii">>, <<2, "Bigint">>, <<3, "Blob">>, <<4, "Boolean">>,
       <<5, "Counter">>, <<6, "Decimal">>, <<7, "Double">>, <<8, "Float">>,
       <<9, "Int">>, <<11, "Timestamp">>, <<12, "Uuid">>, <<13, "Varchar">>,
       <<14, "Varint">>, <<15, "Timeuuid">>, <<16, "Inet">> >>

IsScalarTag(option) == \E j \in DOMAIN ScalarTags : ScalarTags[j][1] = option

ScalarOf(option) == ScalarTags[CHOOSE j \in DOMAIN ScalarTags : ScalarTags[j][1] = option][2]

\* the arms of CQLType::decode for 0x0030 and 0x0031
UnsupportedType(what, p) == Fail(Protocol(what, U32(0, 0), <<>>), p)

\* FromWire for CQLType: the match on the u16 option read at p - 2
RECURSIVE CQLTypeDecode(_, _)
CQLTypeMatch(buf, option, p) ==
    CASE option = 0 ->
            Try(StringDecode(buf, p), LAMBDA s : Ok(Variant("Custom"), s.pos))
      [] IsScalarTag(option) -> Ok(Variant(ScalarOf(option)), p)
      [] option = 32 ->
            Try(CQLTypeDecode(buf, p), LAMBDA e : Ok(Variant("List"), e.pos))
      [] option = 33 ->
            Try(CQLTypeDecode(buf, p), LAMBDA k :
            Try(CQLTypeDecode(buf, k.pos), LAMBDA v : Ok(Variant("Map"), v.pos)))
      [] option = 34 ->
            Try(CQLTypeDecode(buf, p), LAMBDA e : Ok(Variant("Set"), e.pos))
      [] option = 48 -> UnsupportedType("UDTs are not currently supported", p)
      [] option = 49 -> UnsupportedType("Tuples are not currently supported", p)
      [] OTHER -> Fail(Protocol("unknown type identifier", AsU32(option), <<>>), p)

\* FromWire for CQLType
CQLTypeDecode(buf, p) ==
    Try(ReadUInt(buf, p, 2), LAMBDA option : CQLTypeMatch(buf, option.val, option.pos))

\* ---------------------------------------------------------- QueryResult
\* HashMap::insert
Insert(m, k, v) == [n \in (DOMAIN m) \cup {k} |-> IF n = k THEN v ELSE m[n]]

\* ColumnTableSpec that decodes a table spec before every column, whatever the flag
ColumnTableSpecPerColumn(body, p, global, global_table_spec) == TableSpecDecode(body, p)

\* the table spec of a column: a clone of the global one, or one decoded here
ColumnTableSpec(body, p, global, global_table_spec) ==
    IF global THEN Ok(global_table_spec, p) ELSE TableSpecDecode(body, p)

\* the loop that fills column_specs
RECURSIVE DecodeColumnSpecs(_, _, _, _, _, _)
DecodeColumnSpecs(body, p, n, global, global_table_spec, column_specs) ==
    IF n <= 0 THEN Ok(column_specs, p) ELSE
    Try(ColumnTableSpec(body, p, global, global_table_spec), LAMBDA table_spec :
    Try(StringDecode(body, table_spec.pos), LAMBDA name :
    Try(CQLTypeDecode(body, name.pos), LAMBDA datatype :
    DecodeColumnSpecs(body, datatype.pos, n - 1, global, global_table_spec,
        Append(column_specs,
               [table_spec |-> table_spec.val, name |-> name.val,
                datatype |-> datatype.val])))))

\* DecodeCell with the test size > 1: a payload of one byte is not read
DecodeCellOverOne(body, size, p) ==
    IF size > 1 THEN ReadExact(body, p, size) ELSE Ok(<<>>, p)

\* one column of a row: the payload is read when size > 0, and the entry is
\* empty otherwise (NULL or legacy "empty")
DecodeCell(body, size, p) ==
    IF size > 0 THEN ReadExact(body, p, size) ELSE Ok(<<>>, p)

\* one row: for each column spec an i32 size, then the payload
RECURSIVE DecodeRow(_, _, _, _, _)
DecodeRow(body, p, column_specs, i, columns) ==
    IF i > Len(column_specs) THEN Ok([columns |-> columns], p) ELSE
    Try(ReadI32(body, p), LAMBDA size :
    Try(DecodeCell(body, size.val, size.pos), LAMBDA bytes :
    DecodeRow(body, bytes.pos, column_specs, i + 1,
              Insert(columns, column_specs[i].name, bytes.val))))

\* the loop that fills rows
RECURSIVE DecodeRows(_, _, _, _, _)
DecodeRows(body, p, column_specs, n, rows) ==
    IF n <= 0 THEN Ok(rows, p) ELSE
    Try(DecodeRow(body, p, column_specs, 1, <<>>), LAMBDA row :
    DecodeRows(body, row.pos, column_specs, n - 1, Append(rows, row.val)))

\* Vec::with_capacity(count as usize): a negative i32 is a size near 2^64, and
\* the allocation panics with "capacity overflow"
CapacityOverflows(count) == count < 0

\* what QueryResult::decode does when the kind is not Rows
NotRowsKind(kind, tp) == Panicked("Parsing for result of kind {:?} is unimplemented", tp)

\* what QueryResult::decode does when no_metadata is set
NoMetadata(tp) ==
    Fail(Protocol("Parsing results with no_metadata set is unimplemented", U32(0, 0), <<>>), tp)

\* try!(r) on the body's Cursor: the error returns with the transport at tp
TryBody(r, tp, K(_)) == IF r.st # "Ok" THEN Fail(r.err, tp) ELSE K(r)

\* the global table spec: decoded when the flag is set
GlobalTableSpec(body, flags, p) ==
    IF flags.global_table_spec THEN TableSpecDecode(body, p) ELSE Ok(NoVal, p)

\* the value QueryResult::decode returns.  column_specs is the local vector at
\* the return and body_used the body Cursor's position, neither of which the
\* QueryResult keeps.
QueryResultOf(header, kind, flags, global_table_spec, rows, column_specs, body_used) ==
    [header |-> header,
     kind |-> kind,
     flags |-> flags,
     table_spec |-> [some |-> flags.global_table_spec, v |-> global_table_spec],
     rows |-> rows,
     column_specs |-> column_specs,
     body_used |-> body_used]

\* QueryResult::decode from the row count on
QueryResultRows(header, body, tp, flags, gts, specs, p) ==
    TryBody(ReadI32(body, p), tp, LAMBDA row_count :
    IF CapacityOverflows(row_count.val) THEN Panicked("capacity overflow", tp) ELSE
    TryBody(DecodeRows(body, row_count.pos, specs, row_count.val, <<>>), tp, LAMBDA rows :
    Ok(QueryResultOf(header, "Rows", flags, gts, rows.val, specs, rows.pos), tp)))

\* QueryResult::decode from the column count on
QueryResultColumns(header, body, tp, flags, p) ==
    TryBody(ReadI32(body, p), tp, LAMBDA column_count :
    TryBody(GlobalTableSpec(body, flags, column_count.pos), tp, LAMBDA gts :
    IF CapacityOverflows(column_count.val) THEN Panicked("capacity overflow", tp) ELSE
    TryBody(DecodeColumnSpecs(body, gts.pos, column_count.val, flags.global_table_spec,
                              gts.val, <<>>), tp, LAMBDA specs :
    QueryResultRows(header, body, tp, flags, gts.val, specs.val, specs.pos))))

\* QueryResult::decode from the body on: body is the Cursor over the
\* header.length bytes, tp the transport's cursor after them
QueryResultBody(header, body, tp) ==
    TryBody(ResultKindDecode(body, 0), tp, LAMBDA kind :
    IF kind.val # "Rows" THEN NotRowsKind(kind.val, tp) ELSE
    TryBody(ResultFlagsDecode(body, kind.pos), tp, LAMBDA flags :
    IF flags.val.no_metadata THEN NoMetadata(tp) ELSE
    QueryResultColumns(header, body, tp, flags.val, flags.pos)))

\* FromWire for QueryResult
QueryResultDecode(buf, p) ==
    Try(HeaderDecode(buf, p), LAMBDA header :
    Try(ReadExactU32(buf, header.pos, header.val.length), LAMBDA body :
    QueryResultBody(header.val, body.val, body.pos)))

\* the kind check of NonRowResult::decode
NonRowKind(header, kind, tp) ==
    IF kind \notin {"SchemaChange", "Void"}
    THEN Fail(Protocol("Unexpected result kind {:?}", U32(0, 0), <<>>), tp)
    ELSE Ok([header |-> header, kind |-> kind], tp)

\* FromWire for NonRowResult
NonRowResultDecode(buf, p) ==
    Try(HeaderDecode(buf, p), LAMBDA header :
    Try(ReadExactU32(buf, header.pos, header.val.length), LAMBDA body :
    TryBody(ResultKindDecode(body.val, 0), body.pos, LAMBDA kind :
    NonRowKind(header.val, kind.val, body.pos))))

\* ------------------------------------------------------------ Row::get
\* FromCQL::parse for i32, String and bool; a failed assert_eq!, unwrap or
\* index panics
Parse(ty, bytes) ==
    CASE ty = "i32" ->
            IF Len(bytes) # 4 THEN Panicked("assert_eq!(buf.len(), 4)", 0)
            ELSE Ok([n |-> I32Of(FromBE(SubSeq(bytes, 1, 2)), FromBE(SubSeq(bytes, 3, 4))),
                     s |-> <<>>], 0)
      [] ty = "String" ->
            IF IsUtf8(bytes) THEN Ok([n |-> 0, s |-> bytes], 0)
            ELSE Panicked("from_utf8(buf).unwrap()", 0)
      [] ty = "bool" ->
            IF Len(bytes) = 0 THEN Panicked("buf[0]", 0)
            ELSE Ok([n |-> IF bytes[1] = 0 THEN 0 ELSE 1, s |-> <<>>], 0)

None == [some |-> FALSE, v |-> [n |-> 0, s |-> <<>>]]
Some(v) == [some |-> TRUE, v |-> v]

\* Row::get with the test bytes.len() >= 0: Some(parse) for every entry
RowGetAlwaysSome(row, col, ty) ==
    IF col \notin DOMAIN row.columns THEN Panicked("columns.get(col).unwrap()", 0) ELSE
    Try(Parse(ty, row.columns[col]), LAMBDA v : Ok(Some(v.val), 0))

\* Row::get::<T>(col)
RowGet(row, col, ty) ==
    IF col \notin DOMAIN row.columns THEN Panicked("columns.get(col).unwrap()", 0) ELSE
    IF Len(row.columns[col]) > 0
    THEN Try(Parse(ty, row.columns[col]), LAMBDA v : Ok(Some(v.val), 0))
    ELSE Ok(None, 0)

\* ------------------------------------------------------------- inputs
\* Headers handed to Header::encode: every version, flag pair and opcode,
\* with stream ids and lengths that exercise every byte of both fields.
StreamLengthPairs ==
    {<<0, U32(0, 0)>>, <<1, U32(0, 255)>>, <<258, U32(258, 772)>>,
     <<65535, U32(65535, 65535)>>, <<32768, U32(32768, 1)>>}

Headers ==
    {MkHeader(v, [compression |-> c, tracing |-> g], sl[1], o, sl[2]) :
        v \in {"Request", "Response"}, c \in BOOLEAN, g \in BOOLEAN,
        o \in OpcodeNames, sl \in StreamLengthPairs}

Transport(room, accept) == [room |-> room, accept |-> accept]

\* a transport that takes everything, one that takes one byte per write(), and
\* ones that fail at once, inside the header, and inside the body
Transports ==
    {Transport(-1, -1), Transport(-1, 1), Transport(-1, 0), Transport(5, -1),
     Transport(12, -1)}

\* the same, and every number of bytes a single write() may take of a
\* Startup body
StartupTransports == Transports \cup {Transport(-1, n) : n \in 2..24}

\* "SELECT * FROM t"
SelectQuery == <<83, 69, 76, 69, 67, 84, 32, 42, 32, 70, 82, 79, 77, 32, 116>>

RECURSIVE SeqsUpTo(_, _)
SeqsUpTo(S, n) ==
    IF n = 0 THEN {<<>>}
    ELSE LET shorter == SeqsUpTo(S, n - 1)
         IN shorter \cup {Append(q, x) : q \in shorter, x \in S}

\* query texts: the spec's sample, a two-byte character, and "", "a", "aa", ...
Queries == {SelectQuery, <<195, 169>>} \cup SeqsUpTo({97}, MaxQueryLen)

CqlValue(ty, n, s) == [ty |-> ty, n |-> n, s |-> s]

ParamValues ==
    {CqlValue("i32", -2, <<>>), CqlValue("String", 0, <<>>),
     CqlValue("String", 0, <<104, 105>>), CqlValue("bool", 1, <<>>)}

ParamLists == SeqsUpTo(ParamValues, MaxParams)

\* "3.0.0" and two other version strings
CqlVersions == {<<51, 46, 48, 46, 48>>, <<>>, <<52>>}

\* a string of n bytes, each "a"
StrOfLen(n) == [i \in 1..n |-> 97]

\* strings handed to the string encoder: around the largest u16
Strings == {StrOfLen(n) : n \in {0, 1, 65535, 65536, 65537}}

\* ---- type descriptors as the server writes them (protocol v3, section 6)
Leaf(tag) == [tag |-> tag, args |-> <<>>, name |-> <<>>]
CustomOf(name) == [tag |-> "Custom", args |-> <<>>, name |-> name]
ListOf(e) == [tag |-> "List", args |-> <<e>>, name |-> <<>>]
SetOf(e) == [tag |-> "Set", args |-> <<e>>, name |-> <<>>]
MapOf(k, v) == [tag |-> "Map", args |-> <<k, v>>, name |-> <<>>]

TagId(tag) ==
    CASE tag = "Custom" -> 0
      [] tag = "List" -> 32
      [] tag = "Map" -> 33
      [] tag = "Set" -> 34
      [] tag = "UDT" -> 48
      [] tag = "Tuple" -> 49
      [] tag = "Reserved" -> 10
      [] OTHER -> ScalarTags[CHOOSE j \in DOMAIN ScalarTags : ScalarTags[j][2] = tag][1]

RECURSIVE TypeBytes(_)
TypeBytes(t) ==
    BE(TagId(t.tag), 2)
      \o (IF t.tag = "Custom" THEN StrEncode(t.name) ELSE <<>>)
      \o (IF Len(t.args) >= 1 THEN TypeBytes(t.args[1]) ELSE <<>>)
      \o (IF Len(t.args) >= 2 THEN TypeBytes(t.args[2]) ELSE <<>>)

\* a UDT's definition follows its tag: keyspace, name, field count 0
UdtTrailer == StrEncode(<<107>>) \o StrEncode(<<117>>) \o BE(0, 2)

LeafTypes ==
    {Leaf("Int"), Leaf("Varchar"), Leaf("Inet"), CustomOf(<<99>>), CustomOf(<<255>>),
     Leaf("UDT"), Leaf("Tuple"), Leaf("Reserved")}

NestedTypes ==
    {ListOf(e) : e \in LeafTypes} \cup {SetOf(e) : e \in LeafTypes}
      \cup {MapOf(k, v) : k \in LeafTypes, v \in LeafTypes}

DeepTypes ==
    {ListOf(ListOf(Leaf("Int"))), ListOf(MapOf(Leaf("Varchar"), Leaf("Int"))),
     MapOf(ListOf(Leaf("Int")), SetOf(Leaf("Varchar"))), SetOf(SetOf(Leaf("UDT")))}

TypeTrees == LeafTypes \cup NestedTypes \cup DeepTypes

\* whether CQLType::decode accepts the whole descriptor
RECURSIVE Supported(_)
Supported(t) ==
    /\ t.tag \notin {"UDT", "Tuple", "Reserved"}
    /\ (t.tag = "Custom" => IsUtf8(t.name))
    /\ \A i \in DOMAIN t.args : Supported(t.args[i])

\* a descriptor on the transport: followed by `more` (the bytes after it) and
\* with `cut` bytes missing from the end
TypeInput(t, more, cut) ==
    LET all == TypeBytes(t) \o more
    IN [type |-> "TypeDescriptor", tree |-> t, more |-> more, cut |-> cut,
        bytes |-> SubSeq(all, 1, Len(all) - cut)]

TypeInputs ==
    {TypeInput(t, <<>>, 0) : t \in TypeTrees}
      \cup {TypeInput(t, UdtTrailer, 0) : t \in TypeTrees}
      \cup {TypeInput(t, <<>>, 1) : t \in LeafTypes \cup DeepTypes}

\* ---- frames as the server writes them
TableSpecOf(k, t) == [keyspace |-> k, table |-> t]

TableSpecBytes(ts) == StrEncode(ts.keyspace) \o StrEncode(ts.table)

\* the table spec written once when global_table_spec is set: "k", "g"
GlobalSpec == TableSpecOf(<<107>>, <<103>>)

\* the table spec written before column i otherwise: "k", "t<i>"
ServerTableSpec(i) == TableSpecOf(<<107>>, <<116, 48 + i>>)

Column(name, tree) == [name |-> name, tree |-> tree]

Cell(size, bytes) == [size |-> size, bytes |-> bytes]

RECURSIVE ColumnsBytes(_, _, _)
ColumnsBytes(cols, i, global) ==
    IF i > Len(cols) THEN <<>>
    ELSE (IF global THEN <<>> ELSE TableSpecBytes(ServerTableSpec(i)))
           \o StrEncode(cols[i].name) \o TypeBytes(cols[i].tree)
           \o ColumnsBytes(cols, i + 1, global)

RECURSIVE CellsBytes(_, _)
CellsBytes(cells, i) ==
    IF i > Len(cells) THEN <<>>
    ELSE BE(cells[i].size, 4) \o cells[i].bytes \o CellsBytes(cells, i + 1)

RECURSIVE RowsBytes(_, _)
RowsBytes(rows, r) ==
    IF r > Len(rows) THEN <<>> ELSE CellsBytes(rows[r], 1) \o RowsBytes(rows, r + 1)

\* a Rows body: kind 2, flags, column count, [global table spec], the column
\* specs, row count, the rows
RowsBody(flags, column_count, cols, row_count, rows) ==
    BE(2, 4) \o BE(flags, 4) \o BE(column_count, 4)
      \o (IF flags % 2 = 1 THEN TableSpecBytes(GlobalSpec) ELSE <<>>)
      \o ColumnsBytes(cols, 1, flags % 2 = 1)
      \o BE(row_count, 4) \o RowsBytes(rows, 1)

\* A frame on the transport.  The header declares Len(body) + delta bytes:
\* with delta = 1 one more byte follows the body's content, with delta = -1 the
\* body's last byte lies past the declared length.  cut bytes are missing from
\* the transport's end.
ResultFrame(opcode, kind, flags, column_count, cols, row_count, rows, body, delta, cut) ==
    LET all == HeaderBytes(MkHeader("Response", FlagsNew, 0, opcode, AsU32(Len(body) + delta)))
                 \o body \o (IF delta > 0 THEN <<0>> ELSE <<>>)
    IN [type |-> "ResultFrame", opcode |-> opcode, kind |-> kind, flags |-> flags,
        column_count |-> column_count, cols |-> cols, row_count |-> row_count,
        rows |-> rows, body |-> body, delta |-> delta, cut |-> cut,
        bytes |-> SubSeq(all, 1, Len(all) - cut)]

RowsFrame(flags, column_count, cols, row_count, rows, delta, cut) ==
    ResultFrame("Result", 2, flags, column_count, cols, row_count, rows,
                RowsBody(flags, column_count, cols, row_count, rows), delta, cut)

\* a frame of another kind: the body is the kind and `rest`
KindFrame(opcode, kind, rest, delta, cut) ==
    ResultFrame(opcode, kind, 0, 0, <<>>, 0, <<>>, BE(kind, 4) \o rest, delta, cut)

\* column names: "a", "b", ... or "a" for every column
NamePatterns(n) == {[i \in 1..n |-> <<96 + i>>], [i \in 1..n |-> <<97>>]}

\* the first column has the chosen type, the others are Varchar
Columns(names, tree) ==
    [i \in DOMAIN names |-> Column(names[i], IF i = 1 THEN tree ELSE Leaf("Varchar"))]

ColumnTypes ==
    {Leaf("Int"), ListOf(Leaf("Int")), MapOf(Leaf("Varchar"), Leaf("Int")),
     CustomOf(<<99>>), Leaf("UDT"), Leaf("Reserved")}

CellSizes == {-1, 0, 1, 4}

\* the payload of row r, column c
Payload(size, r, c) ==
    CASE size = 4 -> <<255, 255, 255 - c, 255 - r>>
      [] size = 1 -> <<2 * (r - 1) + (c - 1)>>
      [] OTHER -> <<>>

RowsOf(sizes, row_count) ==
    [r \in 1..row_count |-> [c \in DOMAIN sizes |-> Cell(sizes[c], Payload(sizes[c], r, c))]]

\* well-formed Rows frames without rows: every flag combination and column type
MetaFrames ==
    {RowsFrame(f, 0, <<>>, 0, <<>>, 0, 0) : f \in 0..5}
      \cup UNION {{RowsFrame(f, n, Columns(names, tree), 0, <<>>, 0, 0) :
                      f \in 0..5, names \in NamePatterns(n), tree \in ColumnTypes} :
                  n \in 1..MaxCols}

\* well-formed Rows frames with rows: every cell size in every column
RowFrames ==
    UNION {{RowsFrame(f, n, Columns(names, Leaf("Int")), rc, RowsOf(sizes, rc), 0, 0) :
               f \in 0..1, names \in NamePatterns(n), rc \in 1..MaxRows,
               sizes \in [1..n -> CellSizes]} :
           n \in 0..MaxCols}

\* counts that are negative or that promise more than the body holds
CountFrames ==
    {RowsFrame(f, cc, <<>>, rc, <<>>, 0, 0) :
        f \in 0..1, cc \in {-1, 0, 1}, rc \in {-1, 0, 1}}
      \cup {RowsFrame(0, 1, Columns(<<<<97>>>>, Leaf("Int")), rc, <<>>, 0, 0) : rc \in {-1, 1}}

\* every result kind and two unknown ones, under the Result opcode and another
KindFrames ==
    {KindFrame(o, k, rest, 0, 0) :
        o \in {"Result", "Ready"}, k \in {-1, 0, 1, 3, 4, 5, 6}, rest \in {<<>>, <<0, 7>>}}

\* frames whose declared length disagrees with the body, or that the
\* transport does not hold in full
LengthFrames ==
    {RowsFrame(f, n, Columns([i \in 1..n |-> <<96 + i>>], Leaf("Int")), rc,
               RowsOf([c \in 1..n |-> 4], rc), d, cut) :
        f \in 0..1, n \in 0..1, rc \in 0..1, d \in {-1, 0, 1}, cut \in 0..1}
      \cup {KindFrame("Result", k, <<>>, d, cut) : k \in {1, 2, 5}, d \in {-4, -1, 0, 1}, cut \in 0..1}

ResultFrames == MetaFrames \cup RowFrames \cup CountFrames \cup KindFrames \cup LengthFrames

\* a header with any version and opcode byte, and what follows it
HeaderFrame(version, flags, opbyte, length, code, message, body, cut) ==
    LET all == <<version, flags, 0, 0, opbyte>> \o U32Bytes(length) \o body
    IN [type |-> "HeaderFrame", version |-> version, flags |-> flags, opbyte |-> opbyte,
        length |-> length, code |-> code, message |-> message, body |-> body,
        cut |-> cut, bytes |-> SubSeq(all, 1, Len(all) - cut)]

\* an Error frame: the code and the message, declared in full or not at all
ErrorFrames ==
    {HeaderFrame(131, 0, 0, AsU32(IF declared THEN 4 + 2 + Len(m) + Len(more) ELSE 0), c, m,
                 U32Bytes(c) \o StrEncode(m) \o more, cut) :
        c \in {U32(0, 10), U32(0, 8704), U32(65535, 65535)}, m \in {<<>>, <<110, 111>>, <<255>>},
        more \in {<<>>, <<0, 0>>}, declared \in BOOLEAN, cut \in 0..1}

\* every byte value around the opcode table, both versions and a bad one
PlainFrames ==
    {HeaderFrame(v, f, o, AsU32(Len(body)), U32(0, 0), <<>>, body, 0) :
        v \in {3, 131, 4}, f \in {0, 3, 255}, o \in 0..17, body \in {<<>>, <<0, 0, 0, 1>>}}
      \cup {HeaderFrame(131, 0, 8, U32(0, 0), U32(0, 0), <<>>, <<>>, cut) : cut \in {4, 5, 8, 9}}

HeaderFrames == ErrorFrames \cup PlainFrames

\* ------------------------------------------------------------ the state
NoCall == [t |-> Transport(-1, -1), start |-> 0, row |-> 0, col |-> <<>>, ty |-> ""]

NoRet == [st |-> "none", val |-> NoVal, pos |-> 0, err |-> NoErr]

Init ==
    /\ op = "init"
    /\ sent = [type |-> "none"]
    /\ written = <<>>
    /\ wire = <<>>
    /\ pos = 0
    /\ call = NoCall
    /\ ret = NoRet
    /\ held = NoVal

\* a panic unwinds the thread: nothing runs after it
Alive == ret.st # "Panic"

EncodeOps == {"Header.encode", "OptionsRequest.encode", "StartupRequest.encode",
              "QueryRequest.encode", "str.encode"}

\* a run starts from a fresh connection: one request is encoded onto a fresh
\* transport t (the encode returned w), or the server's bytes arrive
Encoded(name, request, t, w) ==
    /\ op = "init"
    /\ op' = name
    /\ sent' = request
    /\ written' = w.out
    /\ wire' = <<>>
    /\ pos' = 0
    /\ call' = [NoCall EXCEPT !.t = t]
    /\ ret' = [st |-> w.st, val |-> NoVal, pos |-> 0, err |-> w.err]
    /\ held' = NoVal

EncodeHeader ==
    \E h \in Headers, t \in {Transport(-1, -1), Transport(5, -1)} :
        Encoded("Header.encode", [type |-> "Header", header |-> h], t,
                HeaderEncode(h, t, <<>>))

EncodeOptions ==
    \E t \in Transports :
        Encoded("OptionsRequest.encode", OptionsRequestNew, t,
                OptionsRequestEncode(OptionsRequestNew, t))

EncodeStartup ==
    \E v \in CqlVersions, t \in StartupTransports :
        Encoded("StartupRequest.encode", StartupRequestNew(v), t,
                StartupRequestEncode(StartupRequestNew(v), t))

EncodeQuery ==
    \E q \in Queries, ps \in ParamLists, t \in Transports :
        Encoded("QueryRequest.encode", QueryRequestNew(q, ps), t,
                QueryRequestEncode(QueryRequestNew(q, ps), t))

EncodeStr ==
    \E str \in Strings, t \in {Transport(-1, -1), Transport(1, -1)} :
        Encoded("str.encode", [type |-> "str", str |-> str], t, StrEncodeTo(str, t, <<>>))

\* the buffer a Header was encoded into is read back (Cursor::new(buffer)):
\* Header is the one type with both ToWire and FromWire
ReadBack ==
    /\ Alive
    /\ op = "Header.encode"
    /\ op' = "read back"
    /\ wire' = written
    /\ pos' = 0
    /\ UNCHANGED <<sent, written, call, ret, held>>

\* bytes of the server arrive on the transport
Received(d) ==
    /\ op = "init"
    /\ op' = "receive"
    /\ sent' = d
    /\ written' = <<>>
    /\ wire' = d.bytes
    /\ pos' = 0
    /\ call' = NoCall
    /\ ret' = NoRet
    /\ held' = NoVal

ReceiveHeader == \E d \in HeaderFrames : Received(d)

ReceiveResult == \E d \in ResultFrames : Received(d)

ReceiveType == \E d \in TypeInputs : Received(d)

\* a decode reads what the transport holds from the cursor on; the caller goes
\* on reading a connection as long as the calls return Ok
CanDecode ==
    /\ Alive
    /\ op \in {"read back", "receive"} \/ (op \notin EncodeOps \cup {"init"} /\ ret.st = "Ok")
    /\ (pos < Len(wire) \/ pos = 0)

Decoded(name, r) ==
    /\ CanDecode
    /\ op' = name
    /\ pos' = r.pos
    /\ call' = [NoCall EXCEPT !.start = pos]
    /\ ret' = r
    /\ held' = IF name = "QueryResult.decode" /\ r.st = "Ok" THEN r.val ELSE held
    /\ UNCHANGED <<sent, written, wire>>

DecodeHeader == Decoded("Header.decode", HeaderDecode(wire, pos))

DecodeQueryResult == Decoded("QueryResult.decode", QueryResultDecode(wire, pos))

DecodeNonRowResult == Decoded("NonRowResult.decode", NonRowResultDecode(wire, pos))

DecodeCQLType == Decoded("CQLType.decode", CQLTypeDecode(wire, pos))

\* "z", a name no column has
MissingColumn == <<122>>

\* the caller reads a column of the first or the last row of the result it holds
GetColumn ==
    /\ Alive
    /\ held # NoVal
    /\ Len(held.rows) > 0
    /\ \E r \in {1, Len(held.rows)} :
       \E col \in (DOMAIN held.rows[r].columns) \cup {MissingColumn},
          ty \in {"i32", "String", "bool"} :
            /\ op' = "Row.get"
            /\ call' = [NoCall EXCEPT !.row = r, !.col = col, !.ty = ty]
            /\ ret' = RowGet(held.rows[r], col, ty)
    /\ UNCHANGED <<sent, written, wire, pos, held>>

Next ==
    \/ EncodeHeader
    \/ EncodeOptions
    \/ EncodeStartup
    \/ EncodeQuery
    \/ EncodeStr
    \/ ReadBack
    \/ ReceiveHeader
    \/ ReceiveResult
    \/ ReceiveType
    \/ DecodeHeader
    \/ DecodeQueryResult
    \/ DecodeNonRowResult
    \/ DecodeCQLType
    \/ GetColumn

Spec == Init /\ [][Next]_vars

\* =============================================================== claims
\* what the claims speak about
AfterEncode(name) == op = name /\ ret.st = "Ok"

\* a decode that started at the transport's first byte
AfterDecode(name, type) == op = name /\ sent.type = type /\ call.start = 0

\* the number whose big-endian bytes are b[i..j], for numbers below 2^31
NumAt(b, i, j) == FromBE(SubSeq(b, i, j))

\* ---- C1
\* the decode read the 9 bytes that Header::encode wrote for sent.header
HeaderReadBack == AfterDecode("Header.decode", "Header") /\ Len(wire) = 9

\* C1 as stated: Header::encode writes exactly 9 bytes and Header::decode of
\* those 9 bytes returns a header equal to h, for every header h, whatever
\* its opcode.
C1_EveryHeaderRoundTrips ==
    HeaderReadBack => (ret.st = "Ok" /\ ret.val = sent.header)

\* C1, amended: Header::encode writes exactly 9 bytes (version, flags, stream
\* id big-endian, opcode, length big-endian) for every header; Header::decode
\* of those 9 bytes returns a header equal to h field by field when h's opcode
\* is not Error, and for opcode Error it returns no header but an I/O error,
\* having looked for an error code after the 9 bytes.
C1_HeaderRoundTrip ==
    /\ (AfterEncode("Header.encode") =>
            /\ Len(written) = 9
            /\ written[1] = (IF sent.header.version = "Request" THEN 3 ELSE 131)
            /\ (written[2] % 2 = 1) = sent.header.flags.compression
            /\ (written[2] \div 2 = 1) = sent.header.flags.tracing
            /\ NumAt(written, 3, 4) = sent.header.stream
            /\ written[5] = OpcodeByte(sent.header.opcode)
            /\ NumAt(written, 6, 7) = sent.header.length.hi
            /\ NumAt(written, 8, 9) = sent.header.length.lo)
    /\ (HeaderReadBack =>
            IF sent.header.opcode # "Error"
            THEN ret.st = "Ok" /\ ret.val = sent.header /\ pos = 9
            ELSE ret.st = "Err" /\ ret.err.kind = "IO")

\* a header with both flags, a stream id and a length with the top bit set
\* went through encode and decode
C1_Witness ==
    /\ HeaderReadBack
    /\ ret.st = "Ok"
    /\ sent.header.flags = [compression |-> TRUE, tracing |-> TRUE]
    /\ sent.header.stream = 32768
    /\ sent.header.length = U32(32768, 1)
    /\ sent.header.opcode = "AuthSuccess"

\* ---- C2
\* C2: for every request that OptionsRequest::encode, StartupRequest::encode
\* or QueryRequest::encode reports written, the length field of the 9-byte
\* header on the transport equals the number of body bytes on the transport
\* after that header.
C2_LengthIsBodyWritten ==
    (AfterEncode("OptionsRequest.encode") \/ AfterEncode("StartupRequest.encode")
        \/ AfterEncode("QueryRequest.encode")) =>
        /\ Len(written) >= 9
        /\ NumAt(written, 6, 7) = 0
        /\ NumAt(written, 8, 9) = Len(written) - 9

\* ---- C3
\* a Rows frame that the transport holds in full
RowsFrameInFull == sent.type = "ResultFrame" /\ sent.kind = 2 /\ sent.cut = 0

\* C3: when the content of a Rows body needs more bytes than header.length, or
\* leaves bytes of the header.length body unused, QueryResult::decode fails
\* with a protocol error and returns no result.
C3_LengthDictatesBody ==
    (AfterDecode("QueryResult.decode", "ResultFrame") /\ RowsFrameInFull /\ sent.delta # 0) =>
        (ret.st = "Err" /\ ret.err.kind = "Protocol")

\* ---- C4
\* the column whose payload a Row holds under `name`: the last one of that name
LastCol(cols, name) ==
    CHOOSE i \in DOMAIN cols :
        cols[i].name = name /\ \A j \in DOMAIN cols : j > i => cols[j].name # name

\* the cell the server wrote for the entry `name` of row r
CellOf(frame, r, name) == frame.rows[r][LastCol(frame.cols, name)]

ColumnNames(frame) == {frame.cols[i].name : i \in DOMAIN frame.cols}

\* a frame with rows was decoded into the result
DecodedRows ==
    /\ AfterDecode("QueryResult.decode", "ResultFrame")
    /\ ret.st = "Ok"
    /\ Len(sent.rows) = Len(ret.val.rows)

\* C4 as stated: a column with length prefix -1 yields a Row entry that differs,
\* in the Row and through Row::get, from the entry of a column with length
\* prefix 0.
C4_NullDistinctFromEmpty ==
    DecodedRows =>
        \A r \in DOMAIN sent.rows : \A a \in ColumnNames(sent), b \in ColumnNames(sent) :
            (CellOf(sent, r, a).size = -1 /\ CellOf(sent, r, b).size = 0) =>
                /\ ret.val.rows[r].columns[a] # ret.val.rows[r].columns[b]
                /\ \E ty \in {"i32", "String", "bool"} :
                      RowGet(ret.val.rows[r], a, ty) # RowGet(ret.val.rows[r], b, ty)

\* C4, amended: a column whose length prefix is negative (-1) yields the same
\* Row entry as a column with length prefix 0, an empty payload, and Row::get
\* returns None for both, whatever type is asked for; a column with a positive
\* length prefix yields its payload bytes.
C4_NullSameAsEmpty ==
    /\ (DecodedRows =>
            \A r \in DOMAIN sent.rows : \A a \in ColumnNames(sent) :
                ret.val.rows[r].columns[a] =
                    (IF CellOf(sent, r, a).size > 0 THEN CellOf(sent, r, a).bytes ELSE <<>>))
    /\ ((op = "Row.get" /\ sent.type = "ResultFrame" /\ call.col \in ColumnNames(sent)
            /\ Len(sent.rows) = Len(held.rows)) =>
            IF CellOf(sent, call.row, call.col).size <= 0
            THEN ret = Ok(None, 0)
            ELSE ret.st = "Panic" \/ (ret.st = "Ok" /\ ret.val.some))

\* Row::get returned None for a column sent with length -1, in a row that
\* also has a column sent with length 0
C4_Witness ==
    /\ op = "Row.get"
    /\ sent.type = "ResultFrame"
    /\ call.col \in ColumnNames(sent)
    /\ CellOf(sent, call.row, call.col).size = -1
    /\ \E b \in ColumnNames(sent) : CellOf(sent, call.row, b).size = 0
    /\ held.rows[call.row].columns[call.col] = <<>>
    /\ ret.val = None

\* ---- C5
\* C5: CQLType::decode returns the full type tree of the bytes it consumes
\* (List and Set carry the element type, Map the key and the value type, Custom
\* its class name), having consumed exactly the descriptor; a UDT or Tuple tag
\* fails having consumed the tag alone.
C5_ReturnsTypeTree ==
    (AfterDecode("CQLType.decode", "TypeDescriptor") /\ sent.cut = 0) =>
        /\ Supported(sent.tree) =>
              (ret.st = "Ok" /\ ret.val = sent.tree /\ pos = Len(TypeBytes(sent.tree)))
        /\ sent.tree.tag \in {"UDT", "Tuple"} => (ret.st = "Err" /\ pos = 2)

\* ---- C6
\* a Rows frame as the server writes it, with metadata and supported types
WellFormedRows ==
    /\ RowsFrameInFull
    /\ sent.delta = 0
    /\ (sent.flags \div 4) % 2 = 0
    /\ sent.column_count = Len(sent.cols)
    /\ sent.row_count = Len(sent.rows)
    /\ \A i \in DOMAIN sent.cols : Supported(sent.cols[i].tree)
    /\ sent.body = RowsBody(sent.flags, sent.column_count, sent.cols, sent.row_count, sent.rows)

\* C6: with global_table_spec set, one TableSpec is consumed before the first
\* column and every ColumnSpec carries it; with the flag clear, one TableSpec is
\* consumed per column, before the column's name.  The server writes the table
\* spec k.g once, or k.t<i> before column i: the decode succeeds, the column
\* specs carry these table specs and the names written after them, and the
\* body is consumed to its end.
C6_TableSpecPerFlag ==
    AfterDecode("QueryResult.decode", "ResultFrame") =>
        /\ WellFormedRows => ret.st = "Ok"
        /\ (ret.st = "Ok" /\ sent.delta >= 0) =>
              LET specs == ret.val.column_specs
                  global == sent.flags % 2 = 1
              IN /\ Len(specs) = Len(sent.cols)
                 /\ ret.val.table_spec.some = global
                 /\ global => ret.val.table_spec.v = GlobalSpec
                 /\ \A i \in DOMAIN specs :
                       /\ specs[i].name = sent.cols[i].name
                       /\ specs[i].table_spec =
                             (IF global THEN GlobalSpec ELSE ServerTableSpec(i))
                 /\ ret.val.body_used = Len(sent.body)

\* two columns were decoded from a body with the global table spec
C6_Witness ==
    /\ AfterDecode("QueryResult.decode", "ResultFrame")
    /\ ret.st = "Ok"
    /\ sent.flags % 2 = 1
    /\ Len(ret.val.column_specs) = 2
    /\ ret.val.column_specs[1].table_spec = GlobalSpec
    /\ ret.val.column_specs[2].table_spec = GlobalSpec
    /\ ret.val.column_specs[1].name # ret.val.column_specs[2].name

\* ---- C7
\* the i32-length-prefixed values of params[i..] lie at b[p..], up to b's end
RECURSIVE ValuesAt(_, _, _, _)
ValuesAt(b, p, params, i) ==
    IF i > Len(params) THEN p = Len(b) + 1
    ELSE LET v == Serialize(params[i])
         IN /\ p + 3 + Len(v) <= Len(b)
            /\ NumAt(b, p, p + 3) = Len(v)
            /\ SubSeq(b, p + 4, p + 3 + Len(v)) = v
            /\ ValuesAt(b, p + 4 + Len(v), params, i + 1)

\* C7: the body QueryRequest::encode writes is the u32 big-endian byte length
\* of the query, the query's bytes, the consistency 0x00 0x01, a flags byte
\* that is 0x00 without bound values and 0x01 with at least one, and, exactly
\* when the flags byte is 0x01, the u16 value count and each value with its
\* i32 length, in the order given; "SELECT * FROM t" without values gives
\* 00 00 00 0F, the 15 bytes, 00 01, 00.
C7_QueryBodyLayout ==
    AfterEncode("QueryRequest.encode") =>
        LET b == SubSeq(written, 10, Len(written))
            L == Len(sent.query)
            n == Len(sent.params)
        IN /\ Len(b) >= L + 7
           /\ NumAt(b, 1, 4) = L
           /\ SubSeq(b, 5, 4 + L) = sent.query
           /\ b[L + 5] = 0 /\ b[L + 6] = 1
           /\ b[L + 7] = (IF n = 0 THEN 0 ELSE 1)
           /\ IF n = 0 THEN Len(b) = L + 7
              ELSE NumAt(b, L + 8, L + 9) = n /\ ValuesAt(b, L + 10, sent.params, 1)
           /\ (sent.query = SelectQuery /\ n = 0) =>
                 b = <<0, 0, 0, 15>> \o SelectQuery \o <<0, 1, 0>>

\* a query with two bound values of different types was encoded
C7_Witness ==
    /\ AfterEncode("QueryRequest.encode")
    /\ sent.query = SelectQuery
    /\ Len(sent.params) = 2
    /\ sent.params[1].ty = "i32"
    /\ sent.params[2] = CqlValue("String", 0, <<104, 105>>)
    /\ Len(written) = 9 + 4 + 15 + 3 + 2 + 8 + 6

\* ---- C8
\* a frame with opcode byte 0x00 (Error) and a known version byte
ErrorOpcodeSent ==
    AfterDecode("Header.decode", "HeaderFrame") /\ sent.opbyte = 0 /\ sent.version \in {3, 131}

\* C8: Header::decode never returns a header whose opcode is Error; for the
\* opcode Error it consumes the 4-byte code and the length-prefixed message
\* after the 9 header bytes and returns a protocol error carrying that code
\* and message; for every other known opcode it returns the header having
\* consumed exactly 9 bytes.
C8_ErrorFrameIsProtocolError ==
    /\ (op = "Header.decode" /\ ret.st = "Ok") =>
            (ret.val.opcode # "Error" /\ pos = call.start + 9)
    /\ ErrorOpcodeSent =>
            /\ ret.st = "Err"
            /\ (Len(wire) >= 15 + Len(sent.message) /\ sent.body # <<>>
                    /\ IsUtf8(sent.message)) =>
                  /\ ret.err = Protocol("Error 0x{:04X}: {}", sent.code, sent.message)
                  /\ pos = 9 + 4 + 2 + Len(sent.message)
    /\ (AfterDecode("Header.decode", "HeaderFrame") /\ sent.cut = 0
            /\ sent.version \in {3, 131} /\ sent.opbyte \in (1..16) \ {4}) =>
            (ret.st = "Ok" /\ OpcodeByte(ret.val.opcode) = sent.opbyte /\ pos = 9)

\* an Error frame with code 0x2200 and the message "no" was decoded
C8_Witness ==
    /\ ErrorOpcodeSent
    /\ sent.code = U32(0, 8704)
    /\ sent.message = <<110, 111>>
    /\ ret.st = "Err"
    /\ ret.err.kind = "Protocol"
    /\ ret.err.code = U32(0, 8704)
    /\ ret.err.text = <<110, 111>>
    /\ pos = 17

\* ---- C9
\* a Result frame of a known kind, held in full, with the length of its body
KnownKindFrame ==
    /\ sent.type = "ResultFrame"
    /\ sent.opcode = "Result"
    /\ sent.kind \in 1..5
    /\ sent.delta = 0
    /\ sent.cut = 0

\* C9: a structurally valid Result frame whose kind the decoding path does not
\* accept (not Rows for QueryResult::decode, neither Void nor SchemaChange for
\* NonRowResult::decode) makes the decode return an error value; the decode
\* does not panic.
C9_UnacceptedKindIsError ==
    /\ (AfterDecode("QueryResult.decode", "ResultFrame") /\ KnownKindFrame /\ sent.kind # 2) =>
            ret.st = "Err"
    /\ (AfterDecode("NonRowResult.decode", "ResultFrame") /\ KnownKindFrame
            /\ sent.kind \notin {1, 5}) =>
            ret.st = "Err"

\* ---- C10
\* the decode met a feature the code does not support
UnsupportedFeatureMet ==
    \/ AfterDecode("QueryResult.decode", "ResultFrame") /\ KnownKindFrame /\ sent.kind = 2
          /\ (sent.flags \div 4) % 2 = 1
    \/ AfterDecode("CQLType.decode", "TypeDescriptor") /\ sent.cut = 0
          /\ sent.tree.tag \in {"UDT", "Tuple"}
    \/ AfterDecode("QueryResult.decode", "ResultFrame") /\ KnownKindFrame /\ sent.kind # 2
    \/ AfterDecode("NonRowResult.decode", "ResultFrame") /\ KnownKindFrame
          /\ sent.kind \notin {1, 5}

\* C10: the error value returned for an unsupported feature (a no_metadata
\* result, a UDT or Tuple type tag, a result kind outside the accepted set) has
\* a category that is not the protocol-error category of malformed data.
C10_UnsupportedIsOwnCategory ==
    (UnsupportedFeatureMet /\ ret.st # "Panic") =>
        (ret.st = "Err" /\ ret.err.kind # "Protocol")

\* ---- C11
\* C11: the u16-length-prefixed string encoder rejects a string of more than
\* 65535 bytes with an error, and writes no bytes that start with the wrapped
\* prefix (length mod 65536).
C11_LongStringRejected ==
    (op = "str.encode" /\ Len(sent.str) > 65535) =>
        /\ ret.st = "Err"
        /\ ~(Len(written) >= 2 /\ NumAt(written, 1, 2) = Len(sent.str) % 65536)

\* ---- C12
\* the transport holds the 9 header bytes of a Result frame and fewer bytes
\* after them than the header's length field says
ShortBody ==
    /\ sent.type = "ResultFrame"
    /\ Len(wire) >= 9
    /\ Len(wire) - 9 < NumAt(wire, 6, 9)

\* C12: when the transport delivers fewer than header.length bytes after a
\* decoded Result header, QueryResult::decode and NonRowResult::decode return
\* MyError::IO and no result, whatever the bytes that did arrive say: nothing
\* of the body is interpreted before all of it is read.
C12_ShortBodyIsIOError ==
    ((AfterDecode("QueryResult.decode", "ResultFrame")
        \/ AfterDecode("NonRowResult.decode", "ResultFrame")) /\ ShortBody) =>
        /\ ret.st = "Err"
        /\ ret.err.kind = "IO"
        /\ ret.val = NoVal
        /\ held = NoVal

\* QueryResult::decode met a Void frame whose kind was cut by one byte, and
\* returned the I/O error
C12_Witness ==
    /\ AfterDecode("QueryResult.decode", "ResultFrame")
    /\ ShortBody
    /\ sent.kind = 1
    /\ sent.cut = 1
    /\ ret.st = "Err"
    /\ ret.err.kind = "IO"

\* ---- C13
\* C13: for a well-formed Rows body QueryResult::decode returns exactly
\* row_count rows in wire order; each row was read as one i32 length per
\* ColumnSpec, in column-spec order, with exactly that many payload bytes after
\* a non-negative length, so the entries hold the payloads the server wrote for
\* that row and the body is consumed to its end; with column_count = 0 and
\* row_count = 0 the result is an empty row sequence, not an error.
C13_RowsInWireOrder ==
    (AfterDecode("QueryResult.decode", "ResultFrame") /\ WellFormedRows) =>
        /\ ret.st = "Ok"
        /\ Len(ret.val.rows) = sent.row_count
        /\ ret.val.body_used = Len(sent.body)
        /\ pos = Len(wire)
        /\ \A r \in DOMAIN sent.rows :
              /\ DOMAIN ret.val.rows[r].columns = ColumnNames(sent)
              /\ \A a \in ColumnNames(sent) :
                    ret.val.rows[r].columns[a] =
                        (IF CellOf(sent, r, a).size > 0 THEN CellOf(sent, r, a).bytes
                         ELSE <<>>)
        /\ (sent.column_count = 0 /\ sent.row_count = 0) => ret.val.rows = <<>>

\* two rows of two columns were decoded, the first row's payloads of 4 and 1
\* bytes differing from the second row's
C13_Witness ==
    /\ AfterDecode("QueryResult.decode", "ResultFrame")
    /\ WellFormedRows
    /\ ret.st = "Ok"
    /\ Len(ret.val.rows) = 2
    /\ Len(sent.cols) = 2
    /\ sent.cols[1].name # sent.cols[2].name
    /\ sent.rows[1][1].size = 4
    /\ sent.rows[1][2].size = 1
    /\ ret.val.rows[1].columns[sent.cols[1].name] = sent.rows[1][1].bytes
    /\ ret.val.rows[2].columns[sent.cols[2].name] = sent.rows[2][2].bytes
    /\ ret.val.rows[1] # ret.val.rows[2]

\* ---- C14
\* the transport holds exactly one complete frame, whose version and opcode
\* bytes are known ones, and the decode started at its first byte
OneCompleteFrame ==
    /\ sent.type \in {"HeaderFrame", "ResultFrame"}
    /\ call.start = 0
    /\ Len(wire) >= 9
    /\ wire[1] \in {3, 131}
    /\ wire[5] \in (0..16) \ {4}
    /\ Len(wire) = 9 + NumAt(wire, 6, 9)

\* C14: a call of Header::decode, QueryResult::decode or NonRowResult::decode
\* that read a complete header and returned, Ok or Err, the frame's opcode
\* being Error or not, has consumed exactly 9 + header.length bytes: the
\* transport is at the next frame boundary.
C14_FrameBoundary ==
    (op \in {"Header.decode", "QueryResult.decode", "NonRowResult.decode"}
        /\ OneCompleteFrame /\ ret.st \in {"Ok", "Err"}) =>
        pos = 9 + NumAt(wire, 6, 9)

\* ---- C15
\* a Rows body as the server lays it out, whatever its counts say
RowsBodySent ==
    /\ RowsFrameInFull
    /\ sent.delta = 0
    /\ sent.body = RowsBody(sent.flags, sent.column_count, sent.cols, sent.row_count, sent.rows)

\* C15: for every Rows body, one with a negative column_count or row_count
\* included, QueryResult::decode returns a value, Ok or Err: a negative count
\* does not abort the decode.
C15_NegativeCountReturns ==
    (AfterDecode("QueryResult.decode", "ResultFrame") /\ RowsBodySent) =>
        ret.st \in {"Ok", "Err"}

\* ---- C16
\* the payload the server wrote for column c of row r
PayloadSent(frame, r, c) ==
    IF frame.rows[r][c].size > 0 THEN frame.rows[r][c].bytes ELSE <<>>

\* C16: every Row that QueryResult::decode returns has exactly column_count
\* entries, one per ColumnSpec, each holding the payload read for that column,
\* also when two ColumnSpecs carry the same name.
C16_OneEntryPerColumn ==
    (DecodedRows /\ WellFormedRows) =>
        \A r \in DOMAIN sent.rows :
            /\ Cardinality(DOMAIN ret.val.rows[r].columns) = sent.column_count
            /\ \A c \in DOMAIN sent.cols :
                  ret.val.rows[r].columns[sent.cols[c].name] = PayloadSent(sent, r, c)

====
